---- MODULE Spec2Model ----
(***************************************************************************)
(* The Gupta many-body potential of atomic-clusters/potentials/gupta.py:   *)
(* construction of a cluster (pair enumeration, parameter lookup, the      *)
(* pairwise table) and the evaluation calls potential, gradient, hessian.  *)
(*                                                                         *)
(* Numbers are fixed point: A in 1e-5 eV, XI in 1e-4 eV, P and Q in 1e-4,  *)
(* R0 and coordinates in 1e-4 Angstrom.  exp is kept symbolic: a term      *)
(* coef * exp(rate * (sqrt(d2)/R0 - 1)) is the record of its four          *)
(* ingredients, and has a closed value only at zero strain (exp(0) = 1).   *)
(***************************************************************************)
EXTENDS Integers, Sequences, FiniteSets, Bags, TLC

\* The cluster object and its caller: pc, self, err, call, arg, caller, ret,
\* first, again.  The runs of the scripts: bond (get_bonds.py), xyz
\* (write_xyz.py, read_xyz.py), jm (slurm/job_manager.py), mult
\* (multiplicities.py), gap and gd (orca/get_properties.py: get_gap and
\* get_distances), disp (orca/displacement.py).
VARIABLES pc, self, err, call, arg, caller, ret, first, again, bond, xyz, jm,
          mult, gap, disp, gd

vars == <<pc, self, err, call, arg, caller, ret, first, again, bond, xyz, jm,
          mult, gap, disp, gd>>

\* The variables of the cluster object and its caller.
gupta_vars == <<pc, self, err, call, arg, caller, ret, first, again>>

\* The variables of the scripts outside atomic-clusters.
tool_vars == <<mult, gap, disp, gd>>

\* A script that has not run.
Idle == [pc |-> "idle"]

\* Largest number of atoms of a cluster the model constructs.
MaxN == 3

\* Supported symbols, and one symbol that has no entry in the table.
Supported == {"Fe", "Co", "Ni"}
Symbols == Supported \cup {"Cu"}

\* Element lists handed to Gupta(atoms).
AtomLists == UNION {[1..n -> Symbols] : n \in 1..MaxN}

\* Positions (1e-4 Angstrom): the origin and the point at the Fe-Fe R0 on z.
Origin == <<0, 0, 0>>
Points == {Origin, <<0, 0, 25530>>}

\* Coordinate matrices of n rows and 3 columns, the first row at the origin.
InShape(n) == IF n < 1 THEN {} ELSE {c \in [1..n -> Points] : c[1] = Origin}

\* Coordinate matrices handed to the calls of a cluster of n atoms: those of
\* n rows, those with the last row missing and those with one more row.
CoordMatrices(n) ==
    InShape(n) \cup {SubSeq(c, 1, n - 1) : c \in InShape(n)}
               \cup {Append(c, Origin) : c \in InShape(n)}

(***************************************************************************)
(* The parameter table.  The key f"{a}-{b}" is the ordered pair <<a, b>>.  *)
(***************************************************************************)
Key(a, b) == <<a, b>>

parameters ==
    (Key("Fe", "Fe") :> [A |-> 13315, XI |-> 16179, P |-> 105000, Q |-> 26000, R0 |-> 25530]) @@
    (Key("Fe", "Co") :> [A |-> 11246, XI |-> 15515, P |-> 110380, Q |-> 24379, R0 |-> 25248]) @@
    (Key("Fe", "Ni") :> [A |-> 7075,  XI |-> 13157, P |-> 133599, Q |-> 17582, R0 |-> 25213]) @@
    (Key("Co", "Co") :> [A |-> 9500,  XI |-> 14880, P |-> 116040, Q |-> 22860, R0 |-> 24970]) @@
    (Key("Co", "Ni") :> [A |-> 5970,  XI |-> 12618, P |-> 140447, Q |-> 16486, R0 |-> 24934]) @@
    (Key("Ni", "Ni") :> [A |-> 3760,  XI |-> 10700, P |-> 169990, Q |-> 11890, R0 |-> 24900])

\* A Python list as a function on 0..len-1.
ZeroBased(s) == [k \in 0..(Len(s) - 1) |-> s[k + 1]]

(***************************************************************************)
(* __init__: the construction loop over i < j, in append order.            *)
(***************************************************************************)
RECURSIVE LoopJ(_, _, _, _)
LoopJ(n, i, j, acc) ==
    IF j >= n THEN acc ELSE LoopJ(n, i, j + 1, Append(acc, <<i, j>>))

RECURSIVE LoopI(_, _, _)
LoopI(n, i, acc) ==
    IF i >= n - 1 THEN acc ELSE LoopI(n, i + 1, LoopJ(n, i, i + 1, acc))

idx_ij(n) == LoopI(n, 0, <<>>)

\* atom_ij: the symbols of each enumerated pair, in the same order.
atom_ij(atoms) ==
    LET ij == idx_ij(Len(atoms))
    IN  [k \in 1..Len(ij) |-> <<atoms[ij[k][1] + 1], atoms[ij[k][2] + 1]>>]

\* The keys of the comprehension that have no entry: the first one raises.
MissingKeys(atoms) ==
    LET aij == atom_ij(atoms)
    IN  {k \in 1..Len(aij) : Key(aij[k][1], aij[k][2]) \notin DOMAIN parameters}

FirstMissing(atoms) ==
    CHOOSE k \in MissingKeys(atoms) : \A l \in MissingKeys(atoms) : k <= l

\* idx with the triangular offset of row i taken one row short.
IdxShortOffset(n, i, j) ==
    LET lo == IF j < i THEN j ELSE i
        hi == IF j < i THEN i ELSE j
    IN  n * lo + hi - ((lo + 1) * lo) \div 2

\* idx without the swap that orders its arguments.
IdxNoSwap(n, i, j) == n * i + j - ((i + 2) * (i + 1)) \div 2

\* idx(i, j) of __init__, a closure over n.
idx(n, i, j) ==
    LET lo == IF j < i THEN j ELSE i
        hi == IF j < i THEN i ELSE j
    IN  n * lo + hi - ((lo + 2) * (lo + 1)) \div 2

\* The comprehension without its filter on i != j.
RECURSIVE RowLoopNoFilter(_, _, _, _)
RowLoopNoFilter(n, i, j, acc) ==
    IF j >= n THEN acc
    ELSE RowLoopNoFilter(n, i, j + 1, Append(acc, idx(n, i, j)))

\* [idx(i, j) for j in range(n) if i != j]
RECURSIVE RowLoop(_, _, _, _)
RowLoop(n, i, j, acc) ==
    IF j >= n THEN acc
    ELSE RowLoop(n, i, j + 1, IF i # j THEN Append(acc, idx(n, i, j)) ELSE acc)

pairwise(n) == [i \in 0..(n - 1) |-> ZeroBased(RowLoop(n, i, 0, <<>>))]

\* No object: the state before construction and after a failed one.
NoObject ==
    [atoms |-> <<>>, ai |-> <<>>, aj |-> <<>>, A |-> <<>>, XI |-> <<>>,
     P |-> <<>>, Q |-> <<>>, R0 |-> <<>>, XI2 |-> <<>>, nP |-> <<>>,
     nQ2 |-> <<>>, pairwise |-> <<>>]

\* The attributes __init__ sets when nothing raises.
Built(atoms) ==
    LET n   == Len(atoms)
        ij  == idx_ij(n)
        aij == atom_ij(atoms)
        par == [k \in 1..Len(aij) |-> parameters[Key(aij[k][1], aij[k][2])]]
    IN  [atoms |-> atoms,
         ai |-> ZeroBased([k \in 1..Len(ij) |-> ij[k][1]]),
         aj |-> ZeroBased([k \in 1..Len(ij) |-> ij[k][2]]),
         A  |-> ZeroBased([k \in 1..Len(par) |-> par[k].A]),
         XI |-> ZeroBased([k \in 1..Len(par) |-> par[k].XI]),
         P  |-> ZeroBased([k \in 1..Len(par) |-> par[k].P]),
         Q  |-> ZeroBased([k \in 1..Len(par) |-> par[k].Q]),
         R0 |-> ZeroBased([k \in 1..Len(par) |-> par[k].R0]),
         XI2 |-> ZeroBased([k \in 1..Len(par) |-> par[k].XI * par[k].XI]),
         nP  |-> ZeroBased([k \in 1..Len(par) |-> 0 - par[k].P]),
         nQ2 |-> ZeroBased([k \in 1..Len(par) |-> (0 - par[k].Q) * 2]),
         pairwise |-> pairwise(n)]

NoError == [type |-> "none", key |-> <<>>]

\* The exception __init__ raises, if any: arr_ij[:, 0] on an empty array
\* (n < 2), or the first key of the comprehension that is not in the table.
InitError(atoms) ==
    IF idx_ij(Len(atoms)) = <<>> THEN [type |-> "IndexError", key |-> <<>>]
    ELSE IF MissingKeys(atoms) # {}
         THEN [type |-> "KeyError", key |-> atom_ij(atoms)[FirstMissing(atoms)]]
         ELSE NoError

NoCall == [kind |-> "none"]

Init ==
    /\ pc = "start"
    /\ self = NoObject
    /\ err = NoError
    /\ call = "none"
    /\ arg = <<>>
    /\ caller = <<>>
    /\ ret = NoCall
    /\ first = NoCall
    /\ again = FALSE
    /\ bond = Idle
    /\ xyz = Idle
    /\ jm = Idle
    /\ mult = Idle
    /\ gap = Idle
    /\ disp = Idle
    /\ gd = Idle

\* gupta = Gupta(atoms)
Construct(atoms) ==
    /\ pc = "start"
    /\ call' = "init"
    /\ arg' = atoms
    /\ err' = InitError(atoms)
    /\ IF InitError(atoms) = NoError
       THEN pc' = "ready" /\ self' = Built(atoms)
       ELSE pc' = "failed" /\ self' = NoObject
    /\ UNCHANGED <<caller, ret, first, again, bond, xyz, jm, tool_vars>>

(***************************************************************************)
(* potential(coords).  coords is a sequence of rows; row i+1 is coords[i]. *)
(***************************************************************************)
\* numpy integer indexing of an axis of length len: -len <= k < len.
InBounds(len, k) == k >= 0 - len /\ k < len

\* The norm of coords[i] alone, the subtraction of coords[j] forgotten.
D2FromOrigin(coords, i, j) ==
    LET a == coords[i + 1]
    IN  a[1] * a[1] + a[2] * a[2] + a[3] * a[3]

\* |coords[i] - coords[j]|^2, the square of np.linalg.norm(..., axis=1).
D2(coords, i, j) ==
    LET a == coords[i + 1]
        b == coords[j + 1]
    IN  (a[1] - b[1]) * (a[1] - b[1]) + (a[2] - b[2]) * (a[2] - b[2])
        + (a[3] - b[3]) * (a[3] - b[3])

\* coef * exp(rate * (sqrt(d2) / R0 - 1.0)), kept symbolic.
ExpTerm(coef, rate, r0, d2) == [coef |-> coef, rate |-> rate, R0 |-> r0, d2 |-> d2]

IndexError == [kind |-> "IndexError"]

\* dist of pair k: coords[self.ai] - coords[self.aj], squared norm.
dist2(s, coords, k) == D2(coords, s.ai[k], s.aj[k])

\* Ub = self.XI2 * np.exp(self.nQ2 * norm), entry k.
Ub(s, coords, k) == ExpTerm(s.XI2[k], s.nQ2[k], s.R0[k], dist2(s, coords, k))

\* Ur = self.A * np.exp(self.nP * norm), entry k.
Ur(s, coords, k) == ExpTerm(s.A[k], s.nP[k], s.R0[k], dist2(s, coords, k))

\* U with the band terms of a row taken by column position, not through the
\* pairwise table.
EnergyByColumn(s, coords) ==
    LET m == Cardinality(DOMAIN s.ai)
    IN  [kind |-> "value",
         Ur   |-> [k \in 0..(m - 1) |-> Ur(s, coords, k)],
         rows |-> [i \in DOMAIN s.pairwise |->
                     [c \in DOMAIN s.pairwise[i] |-> Ub(s, coords, c)]]]

\* U = 2.0 * np.sum(Ur) - np.sum(np.sqrt(np.sum(Ub[self.pairwise], axis=1))):
\* the summands of the first sum, and per row of pairwise the summands under
\* the square root, in array order.
Energy(s, coords) ==
    LET m == Cardinality(DOMAIN s.ai)
    IN  [kind |-> "value",
         Ur   |-> [k \in 0..(m - 1) |-> Ur(s, coords, k)],
         rows |-> [i \in DOMAIN s.pairwise |->
                     [c \in DOMAIN s.pairwise[i] |->
                        Ub(s, coords, IF s.pairwise[i][c] < 0
                                      THEN s.pairwise[i][c] + m
                                      ELSE s.pairwise[i][c])]]]

\* The value potential returns or the exception it raises, read from the
\* attributes s of the object.
PotentialResult(s, coords) ==
    LET r == Len(coords)
        m == Cardinality(DOMAIN s.ai)
    IN  IF \E k \in 0..(m - 1) : ~InBounds(r, s.ai[k]) \/ ~InBounds(r, s.aj[k])
        THEN IndexError
        ELSE IF \E i \in DOMAIN s.pairwise : \E c \in DOMAIN s.pairwise[i] :
                    ~InBounds(m, s.pairwise[i][c])
        THEN IndexError
        ELSE Energy(s, coords)

\* The caller's matrix after a call: the body reads coords[self.ai] and
\* coords[self.aj] into new arrays and assigns nothing to coords.
PotentialCoords(s, coords) == coords

\* A body that scales self.A in place where the code scales a copy.
PotentialSelfInPlace(s, coords) ==
    [s EXCEPT !.A = [k \in DOMAIN s.A |-> 2 * s.A[k]]]

\* The object's attributes after a potential call: the body assigns none.
PotentialSelf(s, coords) == s

RECURSIVE SumCoef(_, _)
SumCoef(f, len) == IF len = 0 THEN 0 ELSE f[len - 1].coef + SumCoef(f, len - 1)

\* Integer square root by bisection on lo..hi.
RECURSIVE Bisect(_, _, _)
Bisect(x, lo, hi) ==
    IF lo >= hi THEN lo
    ELSE LET mid == (lo + hi + 1) \div 2
         IN  IF mid * mid <= x THEN Bisect(x, mid, hi) ELSE Bisect(x, lo, mid - 1)

Sqrt(x) == Bisect(x, 0, 46340)

RECURSIVE SumSqrt(_, _)
SumSqrt(rows, n) ==
    IF n = 0 THEN 0
    ELSE Sqrt(SumCoef(rows[n - 1], Cardinality(DOMAIN rows[n - 1])))
         + SumSqrt(rows, n - 1)

\* Every exponential of U is exp(0): each pair is at its R0.
ZeroStrain(U) ==
    /\ \A k \in DOMAIN U.Ur : U.Ur[k].d2 = U.Ur[k].R0 * U.Ur[k].R0
    /\ \A i \in DOMAIN U.rows : \A c \in DOMAIN U.rows[i] :
          U.rows[i][c].d2 = U.rows[i][c].R0 * U.rows[i][c].R0

\* U without the factor 2.0 on the repulsive sum.
ValueNoDouble(U) ==
    SumCoef(U.Ur, Cardinality(DOMAIN U.Ur))
    - 10 * SumSqrt(U.rows, Cardinality(DOMAIN U.rows))

\* The number U = 2.0 * sum(Ur) - sum(sqrt(sum(Ub[pairwise], axis=1))) in
\* 1e-5 eV, where every exponential is exp(0) = 1 (ZeroStrain).
Value(U) ==
    2 * SumCoef(U.Ur, Cardinality(DOMAIN U.Ur))
    - 10 * SumSqrt(U.rows, Cardinality(DOMAIN U.rows))

\* egrad(self.potential)(coords): the traced call, then an array shaped as coords.
GradientResult(s, coords) ==
    LET U == PotentialResult(s, coords)
    IN  IF U.kind # "value" THEN U
        ELSE [kind |-> "gradient", shape |-> <<Len(coords), 3>>, of |-> U]

\* hess(self.potential)(coords): jacobian of the jacobian, shaped coords.shape twice.
HessianResult(s, coords) ==
    LET U == PotentialResult(s, coords)
    IN  IF U.kind # "value" THEN U
        ELSE [kind |-> "hessian", shape |-> <<Len(coords), 3, Len(coords), 3>>, of |-> U]

Potential(coords) ==
    /\ pc = "ready"
    /\ call' = "potential"
    /\ arg' = coords
    /\ caller' = PotentialCoords(self, coords)
    /\ ret' = PotentialResult(self, coords)
    /\ self' = PotentialSelf(self, coords)
    /\ first' = IF first.kind = "none"
                THEN [kind |-> "potential", coords |-> coords, ret |-> ret']
                ELSE first
    /\ again' = (first.kind = "potential" /\ first.coords = coords)
    /\ UNCHANGED <<pc, err, bond, xyz, jm, tool_vars>>

Gradient(coords) ==
    /\ pc = "ready"
    /\ call' = "gradient"
    /\ arg' = coords
    /\ caller' = PotentialCoords(self, coords)
    /\ ret' = GradientResult(self, coords)
    /\ self' = PotentialSelf(self, coords)
    /\ again' = FALSE
    /\ UNCHANGED <<pc, err, first, bond, xyz, jm, tool_vars>>

Hessian(coords) ==
    /\ pc = "ready"
    /\ call' = "hessian"
    /\ arg' = coords
    /\ caller' = PotentialCoords(self, coords)
    /\ ret' = HessianResult(self, coords)
    /\ self' = PotentialSelf(self, coords)
    /\ again' = FALSE
    /\ UNCHANGED <<pc, err, first, bond, xyz, jm, tool_vars>>

Next ==
    \/ \E atoms \in AtomLists : Construct(atoms)
    \/ \E coords \in CoordMatrices(Len(self.atoms)) : Potential(coords)
    \/ \E coords \in CoordMatrices(Len(self.atoms)) : Gradient(coords)
    \/ \E coords \in CoordMatrices(Len(self.atoms)) : Hessian(coords)

Spec == Init /\ [][Next]_vars

(***************************************************************************)
(* The same object called at a coordinate matrix and at rigid motions of   *)
(* it: a quarter turn about an axis (or none), then a translation.         *)
(***************************************************************************)
RigidPoints == {Origin, <<0, 0, 25530>>, <<0, 20000, 0>>}

RigidMatrices(n) == IF n < 1 THEN {} ELSE [1..n -> RigidPoints]

Turns == {"none", "x", "y", "z"}

Shifts == {<<0, 0, 0>>, <<1000, 0, 0>>, <<300, -2000, 500>>}

\* The rotation matrix of a quarter turn applied to one position.
Turn(r, p) ==
    CASE r = "x" -> <<p[1], 0 - p[3], p[2]>>
      [] r = "y" -> <<p[3], p[2], 0 - p[1]>>
      [] r = "z" -> <<0 - p[2], p[1], p[3]>>
      [] OTHER   -> p

\* coords @ R.T + v, row by row.
Moved(r, v, coords) ==
    [k \in DOMAIN coords |->
        <<Turn(r, coords[k])[1] + v[1], Turn(r, coords[k])[2] + v[2],
          Turn(r, coords[k])[3] + v[3]>>]

PotentialAt(coords) == first.kind = "none" /\ Potential(coords)

PotentialMoved(r, v) ==
    /\ first.kind = "potential"
    /\ Potential(Moved(r, v, first.coords))

NextRigid ==
    \/ \E atoms \in AtomLists : Construct(atoms)
    \/ \E coords \in RigidMatrices(Len(self.atoms)) : PotentialAt(coords)
    \/ \E r \in Turns : \E v \in Shifts : PotentialMoved(r, v)

SpecRigid == Init /\ [][NextRigid]_vars

(***************************************************************************)
(* get_bonds.py: compute_distances.  Lengths are in 1e-6 Angstrom, so that *)
(* 2.513000 and 2.513001 differ by one.  The atoms lie on the z axis: the  *)
(* norm of a difference along one axis is the absolute value of its only   *)
(* non-zero component, also in floating point.                             *)
(***************************************************************************)
\* Largest number of atoms of a file handed to compute_distances.
MaxBondAtoms == 3

valid_bond == 2513000

BondSymbols == {"Fe", "Ni"}

BondPoints == {<<0, 0, z>> : z \in {0, 2513000, 2513001, 10000000}}

Abs(x) == IF x < 0 THEN 0 - x ELSE x

\* np.linalg.norm of a vector with at most one non-zero component.
Norm(d) ==
    CASE d[1] = 0 /\ d[2] = 0 -> Abs(d[3])
      [] d[1] = 0 /\ d[3] = 0 -> Abs(d[2])
      [] d[2] = 0 /\ d[3] = 0 -> Abs(d[1])

\* distance(coord1, coord2)
distance(coord1, coord2) ==
    Norm(<<coord1[1] - coord2[1], coord1[2] - coord2[2], coord1[3] - coord2[3]>>)

\* A row of the matrix that keeps column i.
RECURSIVE PDRowNoFilter(_, _, _, _, _)
PDRowNoFilter(coords, n, i, j, acc) ==
    IF j >= n THEN acc
    ELSE PDRowNoFilter(coords, n, i, j + 1,
                       Append(acc, distance(coords[i + 1], coords[j + 1])))

\* [distance(coords[i], coords[j]) for j in range(num_atoms) if i != j]
RECURSIVE PDRow(_, _, _, _, _)
PDRow(coords, n, i, j, acc) ==
    IF j >= n THEN acc
    ELSE PDRow(coords, n, i, j + 1,
               IF i # j THEN Append(acc, distance(coords[i + 1], coords[j + 1]))
               ELSE acc)

pairwise_distances(coords, n) ==
    [i \in 0..(n - 1) |-> ZeroBased(PDRow(coords, n, i, 0, <<>>))]

\* The test with < in place of <=.
WithinBondStrict(d) == d < valid_bond

\* pairwise_distances[i, j - 1] <= valid_bond
WithinBond(d) == d <= valid_bond

\* valid_distances: for i in range(num_atoms) for j in range(i + 1, num_atoms).
RECURSIVE ValidJ(_, _, _, _, _)
ValidJ(pd, n, i, j, acc) ==
    IF j >= n THEN acc
    ELSE ValidJ(pd, n, i, j + 1,
                IF WithinBond(pd[i][j - 1])
                THEN Append(acc, <<i, j, pd[i][j - 1]>>)
                ELSE acc)

RECURSIVE ValidI(_, _, _, _)
ValidI(pd, n, i, acc) ==
    IF i >= n THEN acc ELSE ValidI(pd, n, i + 1, ValidJ(pd, n, i, i + 1, acc))

valid_distances(coords, n) == ValidI(pairwise_distances(coords, n), n, 0, <<>>)

RECURSIVE SumDist(_, _)
SumDist(valid, k) == IF k = 0 THEN 0 ELSE valid[k][3] + SumDist(valid, k - 1)

\* f"{np.mean(...):.6f}": the mean, rounded to the sixth decimal.
Mean6(valid) == (2 * SumDist(valid, Len(valid)) + Len(valid)) \div (2 * Len(valid))

\* The printing without the test on valid_distances: np.mean of an empty
\* list is nan.
ReportNoGuard(atoms, valid) ==
    [kind    |-> "bonds",
     lines   |-> [k \in 1..Len(valid) |->
                    [number |-> k,
                     label  |-> <<atoms[valid[k][1] + 1], atoms[valid[k][2] + 1]>>,
                     dist   |-> valid[k][3]]],
     average |-> IF valid = <<>> THEN "nan" ELSE Mean6(valid)]

\* What is printed: the numbered bonds and their average, or the message
\* that no bond was found.
Report(atoms, valid) ==
    IF valid # <<>>
    THEN [kind    |-> "bonds",
          lines   |-> [k \in 1..Len(valid) |->
                         [number |-> k,
                          label  |-> <<atoms[valid[k][1] + 1], atoms[valid[k][2] + 1]>>,
                          dist   |-> valid[k][3]]],
          average |-> Mean6(valid)]
    ELSE [kind |-> "none"]

compute_distances(atoms, coords) ==
    /\ bond.pc = "idle"
    /\ bond' = [pc     |-> "done",
                atoms  |-> atoms,
                coords |-> coords,
                valid  |-> valid_distances(coords, Len(atoms)),
                report |-> Report(atoms, valid_distances(coords, Len(atoms)))]
    /\ UNCHANGED <<gupta_vars, xyz, jm, tool_vars>>

NextBonds ==
    \E n \in 0..MaxBondAtoms : \E atoms \in [1..n -> BondSymbols] :
        \E coords \in [1..n -> BondPoints] : compute_distances(atoms, coords)

SpecBonds == Init /\ [][NextBonds]_vars

(***************************************************************************)
(* write_xyz.py: write_xyz_file.  The file is the sequence of its lines, a *)
(* line the sequence of the fields the format string joins with blanks.    *)
(***************************************************************************)
\* Largest length of the atoms list and of the coords array.
MaxXyzAtoms == 3

XyzSymbols == {"Fe", "Co"}

XyzRows == {<<0, 0, 0>>, <<15, -5, 25530>>}

XyzComments == {"", "Randomly generated coordinates"}

\* f"{len(atoms)}": the decimal text of a count.
Str(x) == [text |-> x]

\* str(x) of a coordinate, a number of 1e-4 Angstrom: sign, digits before
\* and digits after the point.
StrFloat(x) == [neg |-> x < 0, whole |-> Abs(x) \div 10000, frac |-> Abs(x) % 10000]

\* f"{atom}   {'   '.join(map(str, coord))}\n"
AtomLine(atom, coord) == <<atom>> \o [k \in DOMAIN coord |-> StrFloat(coord[k])]

\* for atom, coord in zip(atoms, coords): zip stops at the shorter of the two.
RECURSIVE ZipLines(_, _, _, _)
ZipLines(atoms, coords, k, acc) ==
    IF k > Len(atoms) \/ k > Len(coords) THEN acc
    ELSE ZipLines(atoms, coords, k + 1, Append(acc, AtomLine(atoms[k], coords[k])))

\* The lines written to the file.
FileLines(atoms, coords, comment) ==
    <<<<Str(Len(atoms))>>, <<comment>>>> \o ZipLines(atoms, coords, 1, <<>>)

write_xyz_file(atoms, coords, comment) ==
    /\ xyz.pc = "idle"
    /\ xyz' = [pc      |-> "written",
               atoms   |-> atoms,
               coords  |-> coords,
               comment |-> comment,
               file    |-> FileLines(atoms, coords, comment)]
    /\ UNCHANGED <<gupta_vars, bond, jm, tool_vars>>

NextXyz ==
    \E n \in 0..MaxXyzAtoms : \E r \in 0..MaxXyzAtoms :
        \E atoms \in [1..n -> XyzSymbols] : \E coords \in [1..r -> XyzRows] :
            \E comment \in XyzComments : write_xyz_file(atoms, coords, comment)

SpecXyz == Init /\ [][NextXyz]_vars

(***************************************************************************)
(* read_xyz.py: read_xyz_file, applied to the file write_xyz_file wrote.    *)
(***************************************************************************)
\* float(text) of a coordinate text.
Float(t) == (IF t.neg THEN 0 - 1 ELSE 1) * (t.whole * 10000 + t.frac)

\* The words of an atom symbol: split() gives none for an empty field.
Words(atom) == IF atom = "" THEN <<>> ELSE <<atom>>

\* line.split() of an atom line.
Split(line) == IF line = <<>> THEN <<>> ELSE Words(line[1]) \o Tail(line)

\* The lines of a reader that skips three lines: if i < 3: continue
DataLinesAfterThree(file) == SubSeq(file, 4, Len(file))

\* The lines the loop does not skip: if i < 2: continue
DataLines(file) == SubSeq(file, 3, Len(file))

\* atom, *xyz = line.split(); np.array(coordinates, dtype=float)
read_xyz_result(file) ==
    LET data == [k \in DOMAIN DataLines(file) |-> Split(DataLines(file)[k])]
    IN IF \E k \in DOMAIN data : data[k] = <<>>
       THEN [kind |-> "raise", type |-> "ValueError", line |-> 19]
       ELSE IF \E k, m \in DOMAIN data : Len(data[k]) # Len(data[m])
       THEN [kind |-> "raise", type |-> "ValueError", line |-> 23]
       ELSE [kind |-> "return",
             atoms |-> [k \in DOMAIN data |-> data[k][1]],
             coords |-> [k \in DOMAIN data |->
                            [c \in 1..(Len(data[k]) - 1) |-> Float(data[k][c + 1])]]]

read_xyz_file ==
    /\ xyz.pc = "written"
    /\ xyz' = [pc      |-> "read",
               atoms   |-> xyz.atoms,
               coords  |-> xyz.coords,
               comment |-> xyz.comment,
               file    |-> xyz.file,
               read    |-> read_xyz_result(xyz.file)]
    /\ UNCHANGED <<gupta_vars, bond, jm, tool_vars>>

NextTrip ==
    \/ NextXyz
    \/ read_xyz_file

SpecTrip == Init /\ [][NextTrip]_vars

(***************************************************************************)
(* slurm/job_manager.py: main and the SLURM queue it talks to.  jm holds   *)
(* the locals of main (pending, running, jobs = jobs_to_submit), the       *)
(* directory (out: the .slurm files that have their .out file) and the     *)
(* queue (pend[f]: PENDING jobs of file f, ext: other PENDING jobs of the  *)
(* user, run: RUNNING jobs).  start, ok and tried record, for the current  *)
(* polling cycle, the pending count it began with, the submissions that    *)
(* succeeded and the sbatch calls made; before is the value of pending at  *)
(* the last sbatch call.  For the whole run, subs[f] records whether sbatch *)
(* has succeeded for file f never (0), once (1) or more than once (2), and  *)
(* failed holds the files whose last sbatch call returned a non-zero code.  *)
(***************************************************************************)
\* Number of .slurm files in the directory.
NFiles == 2

\* Largest number of jobs the queue holds.
MaxQueued == 6

max_pending == 5

Files == 1..NFiles

RECURSIVE SumOver(_, _)
SumOver(f, S) ==
    IF S = {} THEN 0
    ELSE LET x == CHOOSE y \in S : TRUE IN f[x] + SumOver(f, S \ {x})

\* The PENDING and RUNNING lines squeue prints for the user.
QueuePending(j) == SumOver(j.pend, Files) + j.ext

QueueRunning(j) == j.run

\* find_jobs_to_submit: the .slurm files without .out file, in one of the
\* orders os.listdir may give.
Orders(S) == {o \in [1..Cardinality(S) -> S] : \A a, b \in DOMAIN o : a # b => o[a] # o[b]}

find_jobs_to_submit(j) == Orders(Files \ j.out)

\* The loop condition with <= in place of <.
SubmitGuardInclusive(pending, jobs) == pending <= max_pending /\ jobs # <<>>

\* while pending < max_pending and jobs_to_submit
SubmitGuard(pending, jobs) == pending < max_pending /\ jobs # <<>>

\* if len(jobs_to_submit) <= 1: break
ExitsWithOneLeft(jobs) == Len(jobs) <= 1

\* if jobs_to_submit is None: break (a list is never None)
ExitsNever(jobs) == FALSE

\* if not jobs_to_submit: break
Exits(jobs) == jobs = <<>>

\* The script is started in a directory where some files have their .out,
\* with some other jobs of the user pending.
JmStart(out, ext) ==
    /\ jm = Idle
    /\ jm' = [pc |-> "poll", running |-> 0, pending |-> 0, jobs |-> <<>>,
              start |-> 0, ok |-> 0, tried |-> 0, before |-> 0,
              out |-> out, pend |-> [f \in Files |-> 0], ext |-> ext, run |-> 0,
              subs |-> [f \in Files |-> 0], failed |-> {}]
    /\ UNCHANGED <<gupta_vars, bond, xyz, tool_vars>>

\* Top of the while True loop: check_current_jobs, find_jobs_to_submit, and
\* the break when nothing remains.
JmPoll ==
    /\ jm.pc = "poll"
    /\ \E order \in find_jobs_to_submit(jm) :
           jm' = [jm EXCEPT !.running = QueueRunning(jm),
                            !.pending = QueuePending(jm),
                            !.jobs = order,
                            !.start = QueuePending(jm),
                            !.ok = 0,
                            !.tried = 0,
                            !.pc = IF Exits(order) THEN "done" ELSE "submit"]
    /\ UNCHANGED <<gupta_vars, bond, xyz, tool_vars>>

\* One turn of the inner loop in which sbatch returns 0.
JmSubmitOk ==
    /\ jm.pc = "submit"
    /\ SubmitGuard(jm.pending, jm.jobs)
    /\ QueuePending(jm) + QueueRunning(jm) < MaxQueued
    /\ jm' = [jm EXCEPT !.jobs = Tail(jm.jobs),
                        !.pend[Head(jm.jobs)] = @ + 1,
                        !.pending = @ + 1,
                        !.before = jm.pending,
                        !.ok = @ + 1,
                        !.tried = @ + 1,
                        !.subs[Head(jm.jobs)] = IF @ = 0 THEN 1 ELSE 2,
                        !.failed = @ \ {Head(jm.jobs)}]
    /\ UNCHANGED <<gupta_vars, bond, xyz, tool_vars>>

\* A failed sbatch call that is counted as a submission: pending += 1
\* outside the test of returncode.
JmSubmitFailCounted ==
    /\ jm.pc = "submit"
    /\ SubmitGuard(jm.pending, jm.jobs)
    /\ jm' = [jm EXCEPT !.jobs = Tail(jm.jobs),
                        !.pending = @ + 1,
                        !.before = jm.pending,
                        !.tried = @ + 1,
                        !.failed = @ \cup {Head(jm.jobs)}]
    /\ UNCHANGED <<gupta_vars, bond, xyz, tool_vars>>

\* One turn of the inner loop in which sbatch returns a non-zero code.
JmSubmitFail ==
    /\ jm.pc = "submit"
    /\ SubmitGuard(jm.pending, jm.jobs)
    /\ jm' = [jm EXCEPT !.jobs = Tail(jm.jobs),
                        !.before = jm.pending,
                        !.tried = @ + 1,
                        !.failed = @ \cup {Head(jm.jobs)}]
    /\ UNCHANGED <<gupta_vars, bond, xyz, tool_vars>>

\* The inner loop ends; time.sleep(poll_interval); back to the top.
JmSleep ==
    /\ jm.pc = "submit"
    /\ ~SubmitGuard(jm.pending, jm.jobs)
    /\ jm' = [jm EXCEPT !.pc = "poll"]
    /\ UNCHANGED <<gupta_vars, bond, xyz, tool_vars>>

\* SLURM starts a pending job of file f: it runs and its .out file exists.
JobStart(f) ==
    /\ jm.pc \in {"poll", "submit", "done"}
    /\ jm.pend[f] > 0
    /\ jm' = [jm EXCEPT !.pend[f] = @ - 1, !.run = @ + 1, !.out = @ \cup {f}]
    /\ UNCHANGED <<gupta_vars, bond, xyz, tool_vars>>

\* SLURM starts another pending job of the user.
ExtStart ==
    /\ jm.pc \in {"poll", "submit", "done"}
    /\ jm.ext > 0
    /\ jm' = [jm EXCEPT !.ext = @ - 1, !.run = @ + 1]
    /\ UNCHANGED <<gupta_vars, bond, xyz, tool_vars>>

\* A running job ends and leaves the queue.
JobEnd ==
    /\ jm.pc \in {"poll", "submit", "done"}
    /\ jm.run > 0
    /\ jm' = [jm EXCEPT !.run = @ - 1]
    /\ UNCHANGED <<gupta_vars, bond, xyz, tool_vars>>

NextJobs ==
    \/ \E out \in SUBSET Files : \E ext \in 0..MaxQueued : JmStart(out, ext)
    \/ JmPoll
    \/ JmSubmitOk
    \/ JmSubmitFail
    \/ JmSleep
    \/ \E f \in Files : JobStart(f)
    \/ ExtStart
    \/ JobEnd

SpecJobs == Init /\ [][NextJobs]_vars

\* The run under the assumptions of a working cluster: the script is started
\* and keeps running (each step of main is taken when it stays possible),
\* sbatch succeeds again and again when it is tried again and again, every
\* pending job leaves the PENDING state (and, for a job of a file, creates
\* its .out file), and running jobs end, so that the queue has room.
JobsFairness ==
    /\ WF_vars(\E out \in SUBSET Files : \E ext \in 0..MaxQueued : JmStart(out, ext))
    /\ WF_vars(JmPoll)
    /\ WF_vars(JmSubmitOk \/ JmSubmitFail)
    /\ WF_vars(JmSleep)
    /\ SF_vars(JmSubmitOk)
    /\ \A f \in Files : WF_vars(JobStart(f))
    /\ WF_vars(ExtStart)
    /\ WF_vars(JobEnd)

SpecJobsFair == Init /\ [][NextJobs]_vars /\ JobsFairness

(***************************************************************************)
(* first-principles-dft/multiplicities.py: calculate_multiplicities.        *)
(* An atom-count dictionary is a function from its keys to the counts.      *)
(***************************************************************************)
\* Largest count of one element in a cluster formula.
MaxCount == 3

MultElements == {"Fe", "Co", "Ni", "Cu"}

AtomCounts == UNION {[S -> 0..MaxCount] : S \in SUBSET MultElements}

unpaired_electrons == [e \in {"Fe", "Co", "Ni"} |->
    IF e = "Fe" THEN 4 ELSE IF e = "Co" THEN 3 ELSE 2]

\* The loop over atom_counts.items(): supported elements add to the total,
\* the others only print a warning.
RECURSIVE total_unpaired(_, _)
total_unpaired(atom_counts, S) ==
    IF S = {} THEN 0
    ELSE LET element == CHOOSE e \in S : TRUE
         IN (IF element \in DOMAIN unpaired_electrons
             THEN unpaired_electrons[element] * atom_counts[element]
             ELSE 0) + total_unpaired(atom_counts, S \ {element})

\* list(range(start, stop, step)) for step > 0.
Range(start, stop, step) ==
    [k \in 1..(IF stop <= start THEN 0 ELSE (stop - start + step - 1) \div step)
        |-> start + (k - 1) * step]

multiplicities(atom_counts) ==
    Range(1, total_unpaired(atom_counts, DOMAIN atom_counts) + 2, 2)

calculate_multiplicities(atom_counts) ==
    /\ mult = Idle
    /\ mult' = [pc |-> "done", atom_counts |-> atom_counts,
                warned |-> DOMAIN atom_counts \ DOMAIN unpaired_electrons,
                result |-> multiplicities(atom_counts)]
    /\ UNCHANGED <<gupta_vars, bond, xyz, jm, gap, disp, gd>>

NextMult == \E atom_counts \in AtomCounts : calculate_multiplicities(atom_counts)

SpecMult == Init /\ [][NextMult]_vars

(***************************************************************************)
(* orca/get_properties.py: get_gap.  The content is the sequence of its     *)
(* lines and a line is the sequence of the tokens line.split() gives.       *)
(* Energies are whole numbers of eV.                                        *)
(***************************************************************************)
\* Largest number of lines of a content.
MaxLines == 4

SectionLine == <<"SPIN", "DOWN", "ORBITALS">>

BlankLine == <<>>

ColumnLine == <<"NO", "OCC", "E(Eh)", "E(eV)">>

OrbitalLines == {<<no, occ, "0", ev>> : no \in {"1", "4"}, occ \in {"1.0000", "0.0000"},
                                        ev \in {"-1", "2"}}

GapLines == {SectionLine, BlankLine, ColumnLine} \cup OrbitalLines

GapContents == UNION {[1..n -> GapLines] : n \in 0..MaxLines}

\* int(token) and float(token): the value of a numeral, ValueError otherwise.
IntOf == [t \in {"0", "1", "2", "4"} |->
    IF t = "0" THEN 0 ELSE IF t = "1" THEN 1 ELSE IF t = "2" THEN 2 ELSE 4]

FloatOf == [t \in DOMAIN IntOf \cup {"-1", "1.0000", "0.0000"} |->
    IF t \in DOMAIN IntOf THEN IntOf[t]
    ELSE IF t = "-1" THEN 0 - 1 ELSE IF t = "1.0000" THEN 1 ELSE 0]

\* word in line
HasWord(line) == line = SectionLine

\* lines[k] for a Python index k: negative indices count from the end.
InRange(lines, k) == k < Len(lines) /\ k >= 0 - Len(lines)

At(lines, k) == IF k >= 0 THEN lines[k + 1] ELSE lines[Len(lines) + k + 1]

Raised(type, line) == [kind |-> "raise", type |-> type, line |-> line]

ReturnedNone == [kind |-> "return", value |-> "None"]

\* gap = abs(homo) - lumo
Gap(homo, lumo) == Abs(homo) - lumo

\* The index the inner reversed loop leaves in i: lines.index of the topmost
\* line holding the word.
SectionIndex(lines) == (CHOOSE k \in DOMAIN lines :
    HasWord(lines[k]) /\ \A m \in 1..(k - 1) : ~HasWord(lines[m])) - 1

\* The body of "if len(parts) == 4 and parts[1] == '1.0000'".
Found(lines, i, j) ==
    LET parts == At(lines, i - j)
        lumo_parts == At(lines, i - j + 1)
    IN IF parts[4] \notin DOMAIN FloatOf THEN Raised("ValueError", 196)
       ELSE IF Len(lumo_parts) < 4 THEN Raised("IndexError", 199)
       ELSE IF lumo_parts[4] \notin DOMAIN FloatOf THEN Raised("ValueError", 199)
       ELSE [kind |-> "return", value |-> "tuple",
             homo |-> FloatOf[parts[4]], lumo |-> FloatOf[lumo_parts[4]],
             gap |-> Gap(FloatOf[parts[4]], FloatOf[lumo_parts[4]])]

\* for j in range(n_orb), then line 203 with homo unbound when the loop
\* ends without a break.
RECURSIVE Orbitals(_, _, _, _)
Orbitals(lines, i, j, n_orb) ==
    IF j >= n_orb THEN Raised("UnboundLocalError", 203)
    ELSE IF ~InRange(lines, i - j) THEN Raised("IndexError", 193)
    ELSE IF Len(At(lines, i - j)) = 4 /\ At(lines, i - j)[2] = "1.0000"
         THEN Found(lines, i, j)
         ELSE Orbitals(lines, i, j + 1, n_orb)

get_gap_result(lines) ==
    IF \A k \in DOMAIN lines : ~HasWord(lines[k]) THEN ReturnedNone
    ELSE LET i == SectionIndex(lines)
         IN IF ~InRange(lines, i - 2) \/ At(lines, i - 2) = <<>>
            THEN Raised("IndexError", 188)
            ELSE IF At(lines, i - 2)[1] \notin DOMAIN IntOf
                 THEN Raised("ValueError", 188)
                 ELSE Orbitals(lines, i, 0, IntOf[At(lines, i - 2)[1]])

get_gap(content) ==
    /\ gap = Idle
    /\ gap' = [pc |-> "done", content |-> content, out |-> get_gap_result(content)]
    /\ UNCHANGED <<gupta_vars, bond, xyz, jm, mult, disp, gd>>

\* One call per run: no content is drawn once get_gap has returned.
NextGap == \E content \in (IF gap = Idle THEN GapContents ELSE {}) : get_gap(content)

SpecGap == Init /\ [][NextGap]_vars

(***************************************************************************)
(* orca/displacement.py: process_out_file.  The file is read line by line   *)
(* through one iterator; each step of the model reads the next line, which  *)
(* is any kind of line or the end of the file.  A line is the sequence of   *)
(* its tokens, each a numeral ("num") or not ("word").  disp holds the      *)
(* place of the iterator's reader (pc, i), coords_parsed_successfully, the  *)
(* lengths of atom_symbols (natoms) and displacement_values (nvalues), and  *)
(* what the main loop has met: headers (0, 1, or 2 for more than one),      *)
(* block (the header whose block gave the coordinates), marker (the marker  *)
(* line was met) and after (it was met with the coordinates parsed).        *)
(***************************************************************************)
NUM_ATOMS == 38

OutLines == [header  |-> <<"word", "word", "word">>,
             dashes  |-> <<"word">>,
             atom    |-> <<"word", "num", "num", "num">>,
             badatom |-> <<"word", "num", "word", "num">>,
             values  |-> <<"num", "num", "num", "num", "num", "num", "num">>,
             pair    |-> <<"num", "num">>,
             marker  |-> <<"num", "num", "num", "num", "num", "num">>,
             text    |-> <<"word">>,
             blank   |-> <<>>]

LineKinds == DOMAIN OutLines

\* CARTESIAN_COORDS_HEADER in line_content
IsHeader(k) == k = "header"

\* line_stripped == DISPLACEMENT_MARKER_LINE.strip()
IsMarker(k) == k = "marker"

\* header_separator_line.startswith("---")
IsDashes(k) == k = "dashes"

\* The header test of a main loop that parses every coordinates block.
ParsesBlockAlways(k, parsed) == IsHeader(k)

\* CARTESIAN_COORDS_HEADER in line_content and not coords_parsed_successfully
ParsesBlock(k, parsed) == IsHeader(k) /\ ~parsed

\* len(parts) >= 4 and tuple(map(float, parts[1:4])) succeeds
AtomLineOk(k) == Len(OutLines[k]) >= 4 /\ \A p \in 2..4 : OutLines[k][p] = "num"

\* len(parts) >= 2 and float(parts[1]) succeeds
DisplacementLineOk(k) == Len(OutLines[k]) >= 2 /\ OutLines[k][2] = "num"

DispStart == [pc |-> "main", i |-> 0, coords_parsed_successfully |-> FALSE,
              natoms |-> 0, nvalues |-> 0,
              headers |-> 0, block |-> 0, marker |-> FALSE, after |-> FALSE]

\* A return of process_out_file before the end of the main loop.
Skipped(d) == [d EXCEPT !.pc = "returned"]

\* The statements after the main loop: the four checks, then the file.
AfterLoop(d) ==
    IF d.natoms = 0 THEN Skipped(d)
    ELSE IF d.nvalues = 0 THEN Skipped(d)
    ELSE IF d.natoms # NUM_ATOMS THEN Skipped(d)
    ELSE IF d.nvalues # NUM_ATOMS * 3 THEN Skipped(d)
    ELSE [d EXCEPT !.pc = "written"]

\* with open(filepath) ... lines_iterator = iter(f)
process_out_file ==
    /\ disp = Idle
    /\ disp' = DispStart
    /\ UNCHANGED <<gupta_vars, bond, xyz, jm, mult, gap, gd>>

\* One turn of "for line_content in lines_iterator", or its end.
MainLine(k) ==
    /\ disp.pc = "main"
    /\ disp' =
         IF k = "EOF" THEN AfterLoop(disp)
         ELSE IF ParsesBlock(k, disp.coords_parsed_successfully)
         THEN [disp EXCEPT !.pc = "dashes", !.headers = IF @ < 2 THEN @ + 1 ELSE @]
         ELSE IF IsMarker(k)
         THEN IF ~disp.coords_parsed_successfully
              THEN Skipped([disp EXCEPT !.marker = TRUE])
              ELSE [disp EXCEPT !.pc = "displacements", !.i = 0,
                                !.marker = TRUE, !.after = TRUE]
         ELSE IF IsHeader(k)
         THEN [disp EXCEPT !.headers = IF @ < 2 THEN @ + 1 ELSE @]
         ELSE disp
    /\ UNCHANGED <<gupta_vars, bond, xyz, jm, mult, gap, gd>>

\* parse_cartesian_coords: the line after the header.
DashesLine(k) ==
    /\ disp.pc = "dashes"
    /\ disp' = IF k # "EOF" /\ IsDashes(k)
               THEN [disp EXCEPT !.pc = "atoms", !.i = 0, !.natoms = 0]
               ELSE Skipped(disp)
    /\ UNCHANGED <<gupta_vars, bond, xyz, jm, mult, gap, gd>>

\* parse_cartesian_coords: one turn of "for i in range(NUM_ATOMS)"; after
\* the last one the block is returned to the main loop.
AtomsLine(k) ==
    /\ disp.pc = "atoms"
    /\ disp' =
         IF k = "EOF" \/ ~AtomLineOk(k) THEN Skipped(disp)
         ELSE IF disp.i + 1 < NUM_ATOMS
         THEN [disp EXCEPT !.i = @ + 1, !.natoms = @ + 1]
         ELSE [disp EXCEPT !.pc = "main", !.i = 0, !.natoms = @ + 1,
                           !.coords_parsed_successfully = TRUE,
                           !.block = disp.headers]
    /\ UNCHANGED <<gupta_vars, bond, xyz, jm, mult, gap, gd>>

\* parse_displacements: one turn of its loop; after the last one the main
\* loop breaks and the statements after it run.
DisplacementsLine(k) ==
    /\ disp.pc = "displacements"
    /\ disp' =
         IF k = "EOF" \/ ~DisplacementLineOk(k) THEN Skipped(disp)
         ELSE IF disp.i + 1 < NUM_ATOMS * 3
         THEN [disp EXCEPT !.i = @ + 1, !.nvalues = @ + 1]
         ELSE AfterLoop([disp EXCEPT !.i = @ + 1, !.nvalues = @ + 1])
    /\ UNCHANGED <<gupta_vars, bond, xyz, jm, mult, gap, gd>>

NextDisp ==
    \/ process_out_file
    \/ \E k \in LineKinds \cup {"EOF"} : MainLine(k)
    \/ \E k \in LineKinds \cup {"EOF"} : DashesLine(k)
    \/ \E k \in LineKinds \cup {"EOF"} : AtomsLine(k)
    \/ \E k \in LineKinds \cup {"EOF"} : DisplacementsLine(k)

SpecDisp == Init /\ [][NextDisp]_vars

(***************************************************************************)
(* orca/get_properties.py: get_distances.  Its lines 296-305 are the        *)
(* expressions of get_bonds.py (distance, pairwise_distances, valid_bond,   *)
(* valid_distances); what follows them is the mean, taken without a test.   *)
(***************************************************************************)
\* np.mean([dist for _, _, dist in valid_distances]): the sum over the
\* count, nan for the empty list.
average_distance(valid) ==
    IF valid = <<>> THEN [kind |-> "nan"]
    ELSE [kind |-> "value", sum |-> SumDist(valid, Len(valid)), count |-> Len(valid)]

get_distances(atoms, coords) ==
    /\ gd = Idle
    /\ gd' = [pc      |-> "done",
              atoms   |-> atoms,
              coords  |-> coords,
              valid   |-> valid_distances(coords, Len(atoms)),
              average |-> average_distance(valid_distances(coords, Len(atoms)))]
    /\ UNCHANGED <<gupta_vars, bond, xyz, jm, mult, gap, disp>>

NextDist ==
    \E n \in 0..MaxBondAtoms : \E atoms \in [1..n -> BondSymbols] :
        \E coords \in [1..n -> BondPoints] : get_distances(atoms, coords)

SpecDist == Init /\ [][NextDist]_vars

(***************************************************************************)
(* Properties.                                                             *)
(***************************************************************************)
NAtoms == Len(self.atoms)
NPairs == Cardinality(DOMAIN self.ai)

\* C1: for every pair i < j < n, idx(i, j) is the position at which the
\* construction loop appended (i, j): ai[idx] = i and aj[idx] = j; the m =
\* n(n-1)/2 positions 0..m-1 are all taken, in row-major upper-triangular
\* order.
C1_IdxIsLoopPosition ==
    pc = "ready" =>
        /\ 2 * NPairs = NAtoms * (NAtoms - 1)
        /\ DOMAIN self.ai = 0..(NPairs - 1)
        /\ DOMAIN self.aj = 0..(NPairs - 1)
        /\ \A i \in 0..(NAtoms - 1) : \A j \in (i + 1)..(NAtoms - 1) :
              /\ idx(NAtoms, i, j) \in 0..(NPairs - 1)
              /\ self.ai[idx(NAtoms, i, j)] = i
              /\ self.aj[idx(NAtoms, i, j)] = j
        /\ \A k \in 0..(NPairs - 1) : \A l \in (k + 1)..(NPairs - 1) :
              \/ self.ai[k] < self.ai[l]
              \/ self.ai[k] = self.ai[l] /\ self.aj[k] < self.aj[l]

\* C1 witness: a three-atom cluster, whose last pair (1, 2) sits at position 2.
C1_Witness ==
    /\ pc = "ready"
    /\ NAtoms = 3
    /\ idx(3, 1, 2) = 2
    /\ self.ai[2] = 1
    /\ self.aj[2] = 2

\* C2: row i of pairwise has exactly n-1 entries; entry c is the index of
\* the pair {i, j} with j the c-th atom other than i in ascending order;
\* every entry is a pair containing i, and no pair containing i is missing.
C2_PairwiseRows ==
    pc = "ready" =>
        /\ DOMAIN self.pairwise = 0..(NAtoms - 1)
        /\ \A i \in 0..(NAtoms - 1) :
              /\ DOMAIN self.pairwise[i] = 0..(NAtoms - 2)
              /\ \A c \in 0..(NAtoms - 2) :
                    LET j == IF c < i THEN c ELSE c + 1
                        k == self.pairwise[i][c]
                    IN  /\ k \in 0..(NPairs - 1)
                        /\ {self.ai[k], self.aj[k]} = {i, j}
              /\ \A k \in 0..(NPairs - 1) :
                    i \in {self.ai[k], self.aj[k]} =>
                        \E c \in 0..(NAtoms - 2) : self.pairwise[i][c] = k

\* C2 witness: the middle atom of a three-atom cluster has the row (0, 2):
\* the pair (0, 1), then the pair (1, 2).
C2_Witness ==
    /\ pc = "ready"
    /\ NAtoms = 3
    /\ self.pairwise[1] = (0 :> 0) @@ (1 :> 2)

\* C9: idx(i, j) = idx(j, i) for all distinct atoms i, j, and the common
\* value is the linear index of the unordered pair {i, j}.
C9_IdxSymmetric ==
    pc = "ready" =>
        \A i \in 0..(NAtoms - 1) : \A j \in 0..(NAtoms - 1) :
            i # j =>
                /\ idx(NAtoms, i, j) = idx(NAtoms, j, i)
                /\ idx(NAtoms, i, j) \in 0..(NPairs - 1)
                /\ {self.ai[idx(NAtoms, i, j)], self.aj[idx(NAtoms, i, j)]} = {i, j}

\* C9 witness: in a three-atom cluster the swapped arguments (2, 0) give
\* position 1, where the loop put the pair (0, 2).
C9_Witness ==
    /\ pc = "ready"
    /\ NAtoms = 3
    /\ idx(3, 2, 0) = 1
    /\ self.ai[1] = 0
    /\ self.aj[1] = 2

\* The one table entry of the unordered pair of symbols {a, b}.
TableEntry(a, b) ==
    parameters[CHOOSE key \in DOMAIN parameters : {key[1], key[2]} = {a, b}]

\* The summands of a sum as a bag: each value with the number of its places.
TermBag(f) ==
    [t \in {f[x] : x \in DOMAIN f} |-> Cardinality({x \in DOMAIN f : f[x] = t})]

\* The repulsive and band terms of the pair of atoms i, j at the coordinates
\* of the last call, from the table and the element list.
RepulsiveOf(i, j) ==
    LET e == TableEntry(self.atoms[i + 1], self.atoms[j + 1])
    IN  ExpTerm(e.A, 0 - e.P, e.R0, D2(arg, i, j))

BandOf(i, j) ==
    LET e == TableEntry(self.atoms[i + 1], self.atoms[j + 1])
    IN  ExpTerm(e.XI * e.XI, 0 - 2 * e.Q, e.R0, D2(arg, i, j))

\* C3: in the energy a call returns, the repulsive sum has the term of each
\* pair i < j exactly once, and there is one square root per atom i, taken
\* of the sum of the band terms of exactly the pairs {i, j}, j # i: the band
\* term of a pair is under the root of its two atoms and of no other.
C3_EnergyStructure ==
    (call = "potential" /\ ret.kind = "value") =>
        /\ TermBag(ret.Ur) =
              TermBag([p \in {q \in (0..(NAtoms - 1)) \X (0..(NAtoms - 1)) : q[1] < q[2]}
                         |-> RepulsiveOf(p[1], p[2])])
        /\ Cardinality(DOMAIN ret.Ur) = NPairs
        /\ DOMAIN ret.rows = 0..(NAtoms - 1)
        /\ \A i \in 0..(NAtoms - 1) :
              /\ Cardinality(DOMAIN ret.rows[i]) = NAtoms - 1
              /\ TermBag(ret.rows[i]) =
                    TermBag([j \in (0..(NAtoms - 1)) \ {i} |-> BandOf(i, j)])

\* C3 witness: an energy of a Fe, Co, Ni cluster with two atoms at one place
\* and the third elsewhere, so the three pairs have three different terms.
C3_Witness ==
    /\ call = "potential"
    /\ ret.kind = "value"
    /\ self.atoms = <<"Fe", "Co", "Ni">>
    /\ arg = <<Origin, Origin, <<0, 0, 25530>>>>

FeFeAtR0 ==
    /\ call = "potential"
    /\ self.atoms = <<"Fe", "Fe">>
    /\ arg = <<Origin, <<0, 0, 25530>>>>

\* C4 as stated: two Fe atoms at distance R0 = 2.5530 have the energy
\* 2*A - XI = -1.35160 eV.
C4_DimerEnergyAsStated ==
    FeFeAtR0 => (ret.kind = "value" /\ ZeroStrain(ret) /\ Value(ret) = 0 - 135160)

\* C4 amended: two Fe atoms at distance R0 = 2.5530 have the energy
\* 2*A - 2*XI = -2.96950 eV: the band term XI is subtracted once per atom.
C4_DimerEnergy ==
    FeFeAtR0 =>
        /\ ret.kind = "value"
        /\ ZeroStrain(ret)
        /\ Value(ret) = 2 * parameters[Key("Fe", "Fe")].A
                        - 2 * 10 * parameters[Key("Fe", "Fe")].XI
        /\ Value(ret) = 0 - 296950

\* C4 witness: the call was made and returned an energy.
C4_Witness == FeFeAtR0 /\ ret.kind = "value"

\* C5: the parameters resolved for the ordered pair (a, b) are those resolved
\* for (b, a), for all supported a, b: constructing [a, b] resolves, in
\* either order, the one entry of the table for {a, b}.
C5_LookupOrderIndependent ==
    (call = "init" /\ Len(arg) = 2 /\ arg[1] \in Supported /\ arg[2] \in Supported) =>
        /\ pc = "ready"
        /\ err = NoError
        /\ [A |-> self.A[0], XI |-> self.XI[0], P |-> self.P[0], Q |-> self.Q[0],
            R0 |-> self.R0[0]] = TableEntry(arg[2], arg[1])

\* C6: for every element list of n >= 2 supported symbols, in any order,
\* construction succeeds and pair k has the table entry of the unordered
\* pair of its two symbols in all five arrays.
C6_AllInteractionsSupported ==
    (call = "init" /\ Len(arg) >= 2 /\ \A x \in DOMAIN arg : arg[x] \in Supported) =>
        /\ pc = "ready"
        /\ \A k \in 0..(NPairs - 1) :
              [A |-> self.A[k], XI |-> self.XI[k], P |-> self.P[k], Q |-> self.Q[k],
               R0 |-> self.R0[k]]
              = TableEntry(arg[self.ai[k] + 1], arg[self.aj[k] + 1])

\* C7: constructing a list of n >= 2 symbols with a symbol outside
\* {Fe, Co, Ni} fails, the error names an offending symbol, and no object
\* results.
C7_UnsupportedSymbolNamed ==
    (call = "init" /\ Len(arg) >= 2 /\ \E x \in DOMAIN arg : arg[x] \notin Supported) =>
        /\ pc = "failed"
        /\ self = NoObject
        /\ err.type = "KeyError"
        /\ \E x \in DOMAIN err.key : err.key[x] \notin Supported

\* C8: potential fails, and returns no energy, whenever the number of rows
\* of coords differs from n, be it smaller or larger.
C8_RowMismatchFails ==
    (call = "potential" /\ Len(arg) # NAtoms) => ret.kind # "value"

\* C10: a potential call with the coordinates of the first potential call
\* returns what the first call returned, whatever calls were made between.
C10_ReferentiallyTransparent ==
    again => (call = "potential" /\ arg = first.coords /\ ret = first.ret)

\* C10 witness: a later call repeats the coordinates of the first one and
\* returns an energy.
C10_Witness ==
    /\ again
    /\ ret.kind = "value"
    /\ Len(arg) = 3

\* C11: every potential, gradient and hessian call leaves the attributes
\* set by __init__ (atoms, ai, aj, A, XI, P, Q, R0, XI2, nP, nQ2, pairwise)
\* as they were, and the caller's coordinate matrix holds after the call
\* what was passed; the pair index and the pairwise table are those
\* __init__ computed.
C11_CallsChangeNothing ==
    [][pc = "ready" =>
          /\ self' = self
          /\ caller' = arg'
          /\ self'.ai = ZeroBased([k \in 1..Len(idx_ij(NAtoms)) |-> idx_ij(NAtoms)[k][1]])
          /\ self'.pairwise = pairwise(NAtoms)]_vars

\* C11 witness: a hessian call returned after an earlier potential call, on
\* a three-atom cluster.
C11_Witness ==
    /\ call = "hessian"
    /\ ret.kind = "hessian"
    /\ first.kind = "potential"
    /\ NAtoms = 3
    /\ caller = arg

\* C12: the energy of a coordinate matrix that is a translation, a rotation,
\* or both, of the matrix of the first call is the energy of the first call.
C12_RigidBodyInvariant ==
    (/\ call = "potential"
     /\ first.kind = "potential"
     /\ \E r \in Turns : \E v \in Shifts : arg = Moved(r, v, first.coords)) =>
        ret = first.ret

\* C12 witness: a three-atom energy at a matrix turned about x and shifted,
\* none of whose rows is where it was.
C12_Witness ==
    /\ call = "potential"
    /\ first.kind = "potential"
    /\ ret.kind = "value"
    /\ NAtoms = 3
    /\ arg = Moved("x", <<300, -2000, 500>>, first.coords)
    /\ \A k \in DOMAIN arg : arg[k] # first.coords[k]
    /\ first.coords[1] # first.coords[2]
    /\ first.coords[2] # first.coords[3]

\* C13: for a cluster of n atoms and an (n, 3) coordinate matrix, hessian
\* returns a two-dimensional matrix of shape (3n, 3n).
C13_HessianIsSquareMatrix ==
    (call = "hessian" /\ ret.kind = "hessian" /\ Len(arg) = NAtoms) =>
        ret.shape = <<3 * NAtoms, 3 * NAtoms>>

\* The distance between atoms i and j of the file, from their z coordinates.
BondDist(i, j) == Abs(bond.coords[i + 1][3] - bond.coords[j + 1][3])

BondN == Len(bond.atoms)

Listed(i, j) == \E k \in 1..Len(bond.valid) : bond.valid[k][1] = i /\ bond.valid[k][2] = j

\* C16: the report lists exactly the pairs i < j at a distance <= 2.513, in
\* ascending (i, j) order, whatever the elements; the distance listed for
\* (i, j) is that between atom i and atom j; the printed average is the
\* arithmetic mean of the listed distances (to the sixth decimal).
C16_BondReport ==
    bond.pc = "done" =>
        /\ \A k \in 1..Len(bond.valid) :
              /\ bond.valid[k][1] \in 0..(BondN - 1)
              /\ bond.valid[k][2] \in (bond.valid[k][1] + 1)..(BondN - 1)
              /\ bond.valid[k][3] = BondDist(bond.valid[k][1], bond.valid[k][2])
              /\ bond.valid[k][3] <= 2513000
        /\ \A i \in 0..(BondN - 1) : \A j \in (i + 1)..(BondN - 1) :
              BondDist(i, j) <= 2513000 => Listed(i, j)
        /\ \A k \in 1..Len(bond.valid) : \A l \in (k + 1)..Len(bond.valid) :
              \/ bond.valid[k][1] < bond.valid[l][1]
              \/ bond.valid[k][1] = bond.valid[l][1] /\ bond.valid[k][2] < bond.valid[l][2]
        /\ bond.valid # <<>> =>
              /\ bond.report.kind = "bonds"
              /\ Len(bond.report.lines) = Len(bond.valid)
              /\ \A k \in 1..Len(bond.valid) :
                    bond.report.lines[k].dist = BondDist(bond.valid[k][1], bond.valid[k][2])
              /\ 2 * Abs(Len(bond.valid) * bond.report.average
                         - SumDist(bond.valid, Len(bond.valid))) <= Len(bond.valid)

\* C16 witness: three atoms of two elements of which the pairs (0, 2) and
\* (1, 2) are bonds, at different distances, and the pair (0, 1) is not.
C16_Witness ==
    /\ bond.pc = "done"
    /\ bond.atoms = <<"Fe", "Ni", "Fe">>
    /\ bond.valid = <<<<0, 2, 2513000>>, <<1, 2, 1>>>>
    /\ bond.report.kind = "bonds"
    /\ Len(bond.report.lines) = 2

\* C17: a pair at exactly 2.513000 is in the report and a pair at 2.513001
\* is not.
C17_ThresholdInclusive ==
    bond.pc = "done" =>
        \A i \in 0..(BondN - 1) : \A j \in (i + 1)..(BondN - 1) :
            /\ BondDist(i, j) = 2513000 => Listed(i, j)
            /\ BondDist(i, j) = 2513001 => ~Listed(i, j)

\* C17 witness: one file with a pair at 2.513000, listed, and a pair at
\* 2.513001, not listed.
C17_Witness ==
    /\ bond.pc = "done"
    /\ BondN = 3
    /\ BondDist(0, 1) = 2513000 /\ Listed(0, 1)
    /\ BondDist(0, 2) = 2513001 /\ ~Listed(0, 2)

\* C18: when no pair is within the threshold the list of bonds is empty,
\* no mean is computed and the 'no bond distances' message is the outcome.
C18_EmptyBondSet ==
    (/\ bond.pc = "done"
     /\ \A i \in 0..(BondN - 1) : \A j \in (i + 1)..(BondN - 1) :
           BondDist(i, j) > 2513000) =>
        /\ bond.valid = <<>>
        /\ bond.report = [kind |-> "none"]

\* C18 witness: two atoms 10.0 apart.
C18_Witness ==
    /\ bond.pc = "done"
    /\ BondN = 2
    /\ BondDist(0, 1) = 10000000
    /\ bond.report.kind = "none"

\* C19: in every file written, the count on line 1 is the number of atom
\* lines after line 2, whatever the lengths of atoms and coords, and atom
\* line i carries atoms[i] with coords[i].
C19_CountMatchesAtomLines ==
    xyz.pc = "written" =>
        /\ Len(xyz.file) >= 2
        /\ xyz.file[1] = <<Str(Len(xyz.file) - 2)>>
        /\ \A i \in 1..(Len(xyz.file) - 2) :
              /\ i \in DOMAIN xyz.atoms
              /\ i \in DOMAIN xyz.coords
              /\ xyz.file[i + 2] = AtomLine(xyz.atoms[i], xyz.coords[i])

\* C20: in every polling cycle the pending count is the PENDING jobs seen
\* at its start plus the submissions that succeeded in it; sbatch is called
\* only while that count is below max_pending = 5, so no submission raises
\* it above 5, and a cycle that starts with 5 or more pending submits
\* nothing.
C20_PendingLimit ==
    jm.pc \in {"poll", "submit", "done"} =>
        /\ jm.pending = jm.start + jm.ok
        /\ jm.tried > 0 => jm.before < 5
        /\ jm.ok > 0 => jm.pending <= 5
        /\ jm.start >= 5 => (jm.tried = 0 /\ jm.ok = 0)

\* C20 witness: a cycle that began below the limit, submitted until the
\* count reached 5 and stopped with files left to submit.
C20_Witness ==
    /\ jm.pc = "poll"
    /\ jm.start < 5
    /\ jm.ok > 0
    /\ jm.pending = 5
    /\ jm.jobs # <<>>

\* The count of an element in the dictionary, 0 when it is not a key.
CountOf(e) == IF e \in DOMAIN mult.atom_counts THEN mult.atom_counts[e] ELSE 0

\* C21: for every atom-count dictionary the returned list is not empty and
\* its last element is total_unpaired + 1, with
\* total_unpaired = 4*count(Fe) + 3*count(Co) + 2*count(Ni).
C21_LastIsTotalPlusOne ==
    mult.pc = "done" =>
        /\ mult.result # <<>>
        /\ mult.result[Len(mult.result)] =
               4 * CountOf("Fe") + 3 * CountOf("Co") + 2 * CountOf("Ni") + 1

\* C22: whenever get_gap returns a tuple, its third component is
\* |HOMO - LUMO| of the two values it extracted, so it is never negative.
C22_GapIsAbsoluteDifference ==
    (gap.pc = "done" /\ gap.out.kind = "return" /\ gap.out.value = "tuple") =>
        /\ gap.out.gap = Abs(gap.out.homo - gap.out.lumo)
        /\ gap.out.gap >= 0

\* The content has an occupied-orbital line: four tokens, the second 1.0000.
HasOccupied(content) ==
    \E k \in DOMAIN content : Len(content[k]) = 4 /\ content[k][2] = "1.0000"

\* C23: when the SPIN DOWN ORBITALS section is absent, or present with no
\* occupied-orbital line, get_gap raises ValueError: it neither returns
\* None nor fails with another kind of error.
C23_MissingDataRaisesValueError ==
    (gap.pc = "done" /\ (\/ \A k \in DOMAIN gap.content : ~HasWord(gap.content[k])
                         \/ ~HasOccupied(gap.content))) =>
        (gap.out.kind = "raise" /\ gap.out.type = "ValueError")

\* C24: over a whole run each .slurm file is successfully submitted at most
\* once; a file whose job is still pending, or has no .out file yet, is not
\* submitted again by a later cycle.
C24_SubmittedAtMostOnce ==
    jm.pc \in {"poll", "submit", "done"} => \A f \in Files : jm.subs[f] <= 1

\* A step of JmPoll: the only step that leaves the top of the loop.
PollStep == jm.pc = "poll" /\ jm'.pc # "poll"

\* C25: main exits only at the top of a polling cycle in which
\* find_jobs_to_submit returns the empty list, that is when every .slurm
\* file has its .out file; in that cycle nothing is submitted and the exit
\* does not depend on the running and pending counts; a cycle that finds a
\* file without .out does not exit.
C25_ExitsOnlyWhenNothingLeft ==
    [][/\ (jm.pc # "done" /\ jm'.pc = "done") => PollStep
       /\ PollStep =>
            /\ jm'.pc = "done" <=> Files \subseteq jm.out
            /\ jm'.pc = "done" <=> jm'.jobs = <<>>
            /\ jm'.pc = "done" =>
                 /\ jm'.tried = 0
                 /\ jm'.pend = jm.pend
                 /\ jm'.subs = jm.subs]_vars

\* C25 witness: main has exited, after a cycle that did not exit and
\* submitted a file, while jobs were still running and pending.
C25_Witness ==
    /\ jm.pc = "done"
    /\ jm.running > 0
    /\ jm.pending > 0
    /\ \E f \in Files : jm.subs[f] > 0

\* A step of JmSubmitFail: sbatch was called and did not succeed.
FailStep == jm.pc = "submit" /\ jm'.tried = jm.tried + 1 /\ jm'.ok = jm.ok

\* The files of a list.
FilesOf(jobs) == {jobs[k] : k \in DOMAIN jobs}

\* C26: when sbatch returns a non-zero code for a file, pending is left
\* unchanged and nothing enters the queue; the file leaves the cycle's list
\* and is not in what remains of it, so it is not retried in that cycle;
\* the remaining files are still attempted (the loop goes on under the same
\* condition); and every polling cycle that does not exit lists every file
\* without .out, so the file is found again by the next cycle.
C26_FailedSubmission ==
    [][/\ FailStep =>
            /\ jm'.pending = jm.pending
            /\ jm'.pend = jm.pend
            /\ jm'.jobs = Tail(jm.jobs)
            /\ Head(jm.jobs) \notin FilesOf(jm'.jobs)
            /\ Head(jm.jobs) \in jm'.failed
            /\ jm'.pc = "submit"
       /\ (jm.pc = "submit" /\ jm'.pc = "poll") =>
            ~(jm.pending < 5 /\ jm.jobs # <<>>)
       /\ PollStep => FilesOf(jm'.jobs) = Files \ jm.out]_vars

\* C26 witness: a file whose sbatch call failed is in the list of a later
\* cycle, in which a file after a failed one has been attempted.
C26_Witness ==
    /\ jm.pc = "submit"
    /\ \E f \in jm.failed : f \in FilesOf(jm.jobs)
    /\ jm.tried > 0
    /\ jm.ok > 0

\* C27 as stated: under the assumptions on sbatch and the queue, every
\* .slurm file of the directory is eventually submitted and main eventually
\* prints 'All jobs completed!' and terminates.
C27_AllSubmittedAndDoneAsStated ==
    /\ \A f \in Files : <>(jm.pc # "idle" /\ jm.subs[f] > 0)
    /\ <>(jm.pc = "done")

\* C27: under the assumptions on sbatch and the queue, every .slurm file
\* that has no .out file is eventually submitted, and main eventually prints
\* 'All jobs completed!' and terminates.
C27_AllSubmittedAndDone ==
    /\ \A f \in Files : (jm.pc # "idle" /\ f \notin jm.out) ~> (jm.pc # "idle" /\ jm.subs[f] > 0)
    /\ <>(jm.pc = "done")

\* C27 witness: main has terminated after submitting every file of the
\* directory, each of which has its .out file.
C27_Witness ==
    /\ jm.pc = "done"
    /\ \A f \in Files : jm.subs[f] > 0 /\ f \in jm.out
    /\ jm.tried = 0

\* C28: process_out_file writes the .xyz file only if a header was met and
\* its block of exactly 38 atom lines was parsed before the marker was met
\* and exactly 114 displacement values were then parsed; in every other
\* order or outcome it returns without writing.  The coordinates are those
\* of the first block: a later header before the marker does not replace
\* them.
C28_WritesOnlyCompleteFiles ==
    /\ disp.pc = "written" =>
          /\ disp.headers >= 1
          /\ disp.block = 1
          /\ disp.natoms = 38
          /\ disp.marker /\ disp.after
          /\ disp.nvalues = 114
    /\ disp.pc = "returned" =>
          ~(disp.natoms = 38 /\ disp.marker /\ disp.after /\ disp.nvalues = 114)

\* C28 witness: a file is written although a second header was met before
\* the marker.
C28_Witness == disp.pc = "written" /\ disp.headers = 2 /\ disp.block = 1

\* C29: for an atom list and a coordinate matrix of the same length
\* n >= 1 and any comment, reading the written file returns the same atom
\* symbols in the same order and n rows, row i being the position written
\* for atom i; the two header lines are skipped and nothing else.
C29_RoundTrip ==
    (xyz.pc = "read" /\ Len(xyz.atoms) = Len(xyz.coords) /\ Len(xyz.atoms) >= 1) =>
        /\ xyz.read.kind = "return"
        /\ xyz.read.atoms = xyz.atoms
        /\ Len(xyz.read.coords) = Len(xyz.atoms)
        /\ \A i \in DOMAIN xyz.atoms :
              i \in DOMAIN xyz.read.coords /\ xyz.read.coords[i] = xyz.coords[i]

\* C29 witness: a file of three atoms with a comment of several words and
\* a negative coordinate has been read back.
C29_Witness ==
    /\ xyz.pc = "read"
    /\ Len(xyz.atoms) = 3
    /\ Len(xyz.coords) = 3
    /\ xyz.atoms[1] # xyz.atoms[3]
    /\ xyz.coords[2] = <<15, -5, 25530>>
    /\ xyz.comment = "Randomly generated coordinates"
    /\ xyz.read.kind = "return"

\* The pairs i < j of the file read by get_distances whose atoms are at
\* most 2.513 Angstrom apart.
GdPairs ==
    {<<i, j>> \in (0..(Len(gd.atoms) - 1)) \X (0..(Len(gd.atoms) - 1)) :
        i < j /\ distance(gd.coords[i + 1], gd.coords[j + 1]) <= 2513000}

\* C30: get_distances selects the pairs compute_distances selects (i < j,
\* distance <= 2.513) and, when no pair is within the threshold, yields a
\* defined outcome: it does not return the mean of an empty list.
C30_EmptyBondSetHandled ==
    gd.pc = "done" =>
        /\ {<<gd.valid[k][1], gd.valid[k][2]>> : k \in DOMAIN gd.valid} = GdPairs
        /\ GdPairs = {} => gd.average.kind # "nan"
====
